---- MODULE Spec2Model ----
(***************************************************************************)
(* Model of "Dummy NetCDF Data Generator.py": a single-shot pipeline that  *)
(* resolves the nearest place, looks up the current humidity, asks a       *)
(* generative model for an analysis and prints one merged JSON report.     *)
(*                                                                         *)
(* Python / JSON values are tagged records:                                *)
(*   [t |-> "unset"]            a local that has not been assigned         *)
(*   [t |-> "null"]             None / JSON null                           *)
(*   [t |-> "bool", b |-> ..]   True / False                               *)
(*   [t |-> "num",  n |-> ..]   int                                        *)
(*   [t |-> "str",  s |-> ..]   str, a sequence of one-character strings   *)
(*   [t |-> "list", l |-> ..]   list, a sequence of values                 *)
(*   [t |-> "dict", d |-> ..]   dict, a function from key names to values  *)
(***************************************************************************)
EXTENDS Integers, Sequences, FiniteSets, TLC

VARIABLES
    pc,                   \* position of main()
    google_maps_api_key,  \* os.getenv("GOOGLE_MAPS_API_KEY")
    gemini_api_key,       \* os.getenv("GEMINI_API_KEY")
    calls,                \* remote calls issued so far, in order
    stdout,               \* lines printed so far, in order
    response,             \* what the remote service answered to the component call in progress
    ret,                  \* return value of the component call that just returned
    nearest_place,        \* main's locals
    place_name,
    place_type,
    humidity,
    prompt,               \* the prompt text sent to the generative service
    ai_analysis,
    final_response,
    exc                   \* name of the exception that escaped main(), "" if none

vars == <<pc, google_maps_api_key, gemini_api_key, calls, stdout, response, ret,
          nearest_place, place_name, place_type, humidity, prompt, ai_analysis,
          final_response, exc>>

-----------------------------------------------------------------------------
(* Bounds *)

\* longest "results" list the place-search service answers with
MaxResults == 2

\* longest generative reply, counted in tokens (see ReplyTokens)
MaxReplyLen == 3

-----------------------------------------------------------------------------
(* Values *)

Unset == [t |-> "unset"]
PyNone == [t |-> "null"]
Bool(b) == [t |-> "bool", b |-> b]
Num(n) == [t |-> "num", n |-> n]
Str(s) == [t |-> "str", s |-> s]
List(l) == [t |-> "list", l |-> l]
Dict(d) == [t |-> "dict", d |-> d]
EmptyMapping == [k \in {} |-> PyNone]

\* bool(v): Python truth value
Truthy(v) ==
    CASE v.t = "null" -> FALSE
      [] v.t = "bool" -> v.b
      [] v.t = "num"  -> v.n # 0
      [] v.t = "str"  -> Len(v.s) > 0
      [] v.t = "list" -> Len(v.l) > 0
      [] v.t = "dict" -> DOMAIN v.d # {}
      [] OTHER -> FALSE

\* a == b on two values
PyEq(a, b) == a.t = b.t /\ a = b

\* result of evaluating an expression or calling a component:
\* the value, or the exception raised, plus the lines printed on the way
Ok(v, out) == [exc |-> "", val |-> v, out |-> out]
Raise(e, out) == [exc |-> e, val |-> Unset, out |-> out]

\* v.get(key, default): only dicts have .get
DictGet(v, key, default) ==
    IF v.t # "dict" THEN Raise("AttributeError", <<>>)
    ELSE IF key \in DOMAIN v.d THEN Ok(v.d[key], <<>>) ELSE Ok(default, <<>>)

\* v[key] with a string key
Subscript(v, key) ==
    IF v.t = "dict"
    THEN IF key \in DOMAIN v.d THEN Ok(v.d[key], <<>>) ELSE Raise("KeyError", <<>>)
    ELSE Raise("TypeError", <<>>)

\* v[0]
Index0(v) ==
    CASE v.t = "list" -> IF Len(v.l) = 0 THEN Raise("IndexError", <<>>) ELSE Ok(v.l[1], <<>>)
      [] v.t = "str"  -> IF Len(v.s) = 0 THEN Raise("IndexError", <<>>) ELSE Ok(Str(<<v.s[1]>>), <<>>)
      [] v.t = "dict" -> Raise("KeyError", <<>>)
      [] OTHER -> Raise("TypeError", <<>>)

-----------------------------------------------------------------------------
(* Strings *)

LowerCase == <<"a", "b", "c", "d", "e", "f", "g", "h", "i", "j", "k", "l", "m",
               "n", "o", "p", "q", "r", "s", "t", "u", "v", "w", "x", "y", "z">>
UpperCase == <<"A", "B", "C", "D", "E", "F", "G", "H", "I", "J", "K", "L", "M",
               "N", "O", "P", "Q", "R", "S", "T", "U", "V", "W", "X", "Y", "Z">>
Digits == <<"0", "1", "2", "3", "4", "5", "6", "7", "8", "9">>

IsLower(c) == \E i \in 1..Len(LowerCase) : LowerCase[i] = c
IsUpper(c) == \E i \in 1..Len(UpperCase) : UpperCase[i] = c
ToUpper(c) == IF IsLower(c) THEN UpperCase[CHOOSE i \in 1..Len(LowerCase) : LowerCase[i] = c] ELSE c
ToLower(c) == IF IsUpper(c) THEN LowerCase[CHOOSE i \in 1..Len(UpperCase) : UpperCase[i] = c] ELSE c

\* s.replace('_', ' ')
ReplaceUnderscore(s) == [i \in 1..Len(s) |-> IF s[i] = "_" THEN " " ELSE s[i]]

\* s.title(): a cased character is upper-cased when it does not follow a
\* cased character and lower-cased when it does
RECURSIVE TitleFrom(_, _, _)
TitleFrom(s, i, prevCased) ==
    IF i > Len(s) THEN <<>>
    ELSE IF IsLower(s[i]) \/ IsUpper(s[i])
         THEN <<IF prevCased THEN ToLower(s[i]) ELSE ToUpper(s[i])>> \o TitleFrom(s, i + 1, TRUE)
         ELSE <<s[i]>> \o TitleFrom(s, i + 1, FALSE)

Title(s) == TitleFrom(s, 1, FALSE)

\* str(n) for n >= 0
RECURSIVE IntToStr(_)
IntToStr(n) == IF n < 10 THEN <<Digits[n + 1]>> ELSE IntToStr(n \div 10) \o <<Digits[(n % 10) + 1]>>

S_None == <<"N", "o", "n", "e">>
S_True == <<"T", "r", "u", "e">>
S_False == <<"F", "a", "l", "s", "e">>
S_Object == <<"<", "o", "b", "j", "e", "c", "t", ">">>

\* format(v) as an f-string field formats it
PyStr(v) ==
    CASE v.t = "str"  -> v.s
      [] v.t = "num"  -> IntToStr(v.n)
      [] v.t = "null" -> S_None
      [] v.t = "bool" -> IF v.b THEN S_True ELSE S_False
      [] OTHER -> S_Object

\* sub in s
Contains(s, sub) == \E i \in 1..(Len(s) - Len(sub) + 1) : SubSeq(s, i, i + Len(sub) - 1) = sub

S_OK == <<"O", "K">>
S_ZERO_RESULTS == <<"Z", "E", "R", "O", "_", "R", "E", "S", "U", "L", "T", "S">>
S_NA == <<"N", "/", "A">>
S_unknown == <<"u", "n", "k", "n", "o", "w", "n">>
S_Unknown == <<"U", "n", "k", "n", "o", "w", "n">>
S_not_available == <<"n", "o", "t", " ", "a", "v", "a", "i", "l", "a", "b", "l", "e">>
S_hospital == <<"h", "o", "s", "p", "i", "t", "a", "l">>
S_health == <<"h", "e", "a", "l", "t", "h">>
S_power_station == <<"p", "o", "w", "e", "r", "_", "s", "t", "a", "t", "i", "o", "n">>
S_Power_Station == <<"P", "o", "w", "e", "r", " ", "S", "t", "a", "t", "i", "o", "n">>
S_UNC == <<"U", "N", "C">>
S_Plant == <<"P", "l", "a", "n", "t">>

-----------------------------------------------------------------------------
(* Remote services: what a service may answer *)

\* response of a remote call; kind is
\*   "none"          no call in progress
\*   "transport"     requests.get raised (timeout, DNS, connection)
\*   "http"          an HTTP response with status code and JSON body
\*   "config_error"  genai.configure / GenerativeModel raised
\*   "gen_error"     model.generate_content raised
\*   "gen_reply"     model.generate_content returned a reply with this text
Response(kind, code, body, text) == [kind |-> kind, code |-> code, body |-> body, text |-> text]
NoResponse == Response("none", 0, Unset, <<>>)

\* sequences over S of length at most n
SeqsUpTo(S, n) == UNION {[1..k -> S] : k \in 0..n}

\* entries the place-search service may list under "results"
PlacePool ==
    { Dict([name |-> Str(S_UNC), types |-> List(<<Str(S_hospital), Str(S_health)>>)]),
      Dict([name |-> Str(S_Plant), types |-> List(<<Str(S_power_station)>>)]),
      Dict([types |-> List(<<Str(S_Power_Station)>>)]),
      Dict([name |-> Str(S_UNC)]),
      Dict([name |-> Str(S_Plant), types |-> List(<<>>)]),
      Dict(EmptyMapping),
      Str(S_UNC) }

PlaceStatuses == {Str(S_OK), Str(S_ZERO_RESULTS)}

\* JSON bodies of the place-search service: "status" and "results" each present or not
PlaceBodies ==
    LET lists == {List(l) : l \in SeqsUpTo(PlacePool, MaxResults)}
    IN {Dict([status |-> st, results |-> rs]) : st \in PlaceStatuses, rs \in lists}
       \cup {Dict([status |-> st]) : st \in PlaceStatuses}
       \cup {Dict([results |-> rs]) : rs \in lists}
       \cup {Dict(EmptyMapping)}

\* status codes of an HTTP response: success codes carry a JSON body
HttpCodes == {200, 201, 404, 500}
SuccessCodes == {c \in HttpCodes : c < 400}

PlaceResponses ==
    {Response("transport", 0, Unset, <<>>)}
    \cup {Response("http", c, Unset, <<>>) : c \in HttpCodes \ SuccessCodes}
    \cup {Response("http", c, b, <<>>) : c \in SuccessCodes, b \in PlaceBodies}

\* values the weather service may put at current.relative_humidity_2m
HumidityValues == {Num(0), Num(62), PyNone}

\* JSON bodies of the weather service
WeatherBodies ==
    {Dict([current |-> Dict([relative_humidity_2m |-> h])]) : h \in HumidityValues}
    \cup { Dict(EmptyMapping),
           Dict([current |-> Dict(EmptyMapping)]),
           Dict([current |-> Num(5)]),
           Dict([current |-> List(<<>>)]),
           Dict([current |-> PyNone]) }

WeatherResponses ==
    {Response("transport", 0, Unset, <<>>)}
    \cup {Response("http", c, Unset, <<>>) : c \in HttpCodes \ SuccessCodes}
    \cup {Response("http", c, b, <<>>) : c \in SuccessCodes, b \in WeatherBodies}

S_summary == <<"s", "u", "m">>
S_water == <<"w", "a", "t", "e", "r">>
S_solar == <<"s", "o", "l", "a", "r">>

\* JSON documents the generative service may put in its reply
AnalysisPool ==
    { Dict([ai_summary |-> Str(S_summary), resources_used |-> List(<<Str(S_water)>>),
            impact_reduction |-> List(<<Str(S_solar)>>), is_critical |-> Bool(TRUE)]),
      Dict([ai_summary |-> Num(1)]),
      Dict([foo |-> Str(S_water)]),
      Dict([name |-> Str(S_solar), type |-> Num(7), is_critical |-> Bool(FALSE)]),
      Dict(EmptyMapping),
      List(<<Num(1)>>),
      PyNone }

\* a reply text is a sequence of tokens: whitespace, the fence markers
\* "```json" and "```", text that is not JSON, and a complete JSON document
Tok(kind, v) == [tok |-> kind, v |-> v]
ReplyTokens ==
    {Tok("ws", Unset), Tok("fence_json", Unset), Tok("fence", Unset), Tok("prose", Unset)}
    \cup {Tok("doc", a) : a \in AnalysisPool}

GenResponses ==
    {Response("config_error", 0, Unset, <<>>), Response("gen_error", 0, Unset, <<>>)}
    \cup {Response("gen_reply", 0, Unset, txt) : txt \in SeqsUpTo(ReplyTokens, MaxReplyLen)}

-----------------------------------------------------------------------------
(* find_nearest_place *)

\* response.raise_for_status()
RaiseForStatus(code) == code >= 400 /\ code < 600

\* results["results"][0] returns the last entry instead of the first
LastResult(rs) ==
    IF rs.t = "list" /\ Len(rs.l) > 0 THEN Ok(rs.l[Len(rs.l)], <<>>) ELSE Index0(rs)

\* results["results"][0]
FirstResult(rs) == Index0(rs)

find_nearest_place(resp) ==
    IF resp.kind = "transport" \/ RaiseForStatus(resp.code)
    THEN Ok(PyNone, <<"An error occurred during the Places API request">>)
    ELSE LET results == resp.body
             status == DictGet(results, "status", PyNone)
             rs == DictGet(results, "results", PyNone)
         IN IF status.exc # "" THEN Raise(status.exc, <<>>)
            ELSE IF PyEq(status.val, Str(S_OK)) /\ Truthy(rs.val)
                 THEN FirstResult(rs.val)
                 ELSE Ok(PyNone, <<"Error from Places API">>)

-----------------------------------------------------------------------------
(* get_current_humidity *)

get_current_humidity(resp) ==
    IF resp.kind = "transport" \/ RaiseForStatus(resp.code)
    THEN Ok(PyNone, <<"An error occurred fetching humidity data">>)
    ELSE LET current == Subscript(resp.body, "current")
             rh == Subscript(current.val, "relative_humidity_2m")
             parseError == Ok(PyNone, <<"Could not parse humidity from weather API response.">>)
         IN IF current.exc = "KeyError" THEN parseError
            ELSE IF current.exc # "" THEN Raise(current.exc, <<>>)
            ELSE IF rh.exc = "KeyError" THEN parseError
            ELSE IF rh.exc # "" THEN Raise(rh.exc, <<>>)
            ELSE Ok(rh.val, <<>>)

-----------------------------------------------------------------------------
(* generate_infrastructure_analysis *)

P_NAME == <<"-", " ", "I", "n", "f", "r", "a", "s", "t", "r", "u", "c", "t", "u", "r", "e",
            " ", "N", "a", "m", "e", ":", " ", "\"">>
P_TYPE == <<"-", " ", "I", "n", "f", "r", "a", "s", "t", "r", "u", "c", "t", "u", "r", "e",
            " ", "T", "y", "p", "e", ":", " ", "\"">>
P_HUM == <<"-", " ", "C", "u", "r", "r", "e", "n", "t", " ", "L", "o", "c", "a", "l", " ",
           "H", "u", "m", "i", "d", "i", "t", "y", ":", " ">>

\* the three lines of the prompt that carry the inputs; the remaining lines
\* of the f-string are fixed text
Prompt(name, type, hum) ==
    P_NAME \o PyStr(name) \o <<"\"", "\n">>
    \o P_TYPE \o PyStr(type) \o <<"\"", "\n">>
    \o P_HUM \o PyStr(hum) \o <<"%", "\n">>

\* text.strip()
RECURSIVE Strip(_)
Strip(text) ==
    IF Len(text) = 0 THEN text
    ELSE IF text[1].tok = "ws" THEN Strip(Tail(text))
    ELSE IF text[Len(text)].tok = "ws" THEN Strip(SubSeq(text, 1, Len(text) - 1))
    ELSE text

IsFence(tk) == tk.tok \in {"fence_json", "fence"}
NotFence(tk) == ~IsFence(tk)

\* text.replace("```json", "").replace("```", "")
RemoveFences(text) == SelectSeq(text, NotFence)

\* json.loads(text): one JSON document, whitespace around it allowed
JsonLoads(text) ==
    LET core == Strip(text)
    IN IF Len(core) = 1 /\ core[1].tok = "doc" THEN Ok(core[1].v, <<>>)
       ELSE Raise("JSONDecodeError", <<>>)

generate_infrastructure_analysis(name, type, hum, api_key, resp) ==
    IF ~Truthy(api_key)
    THEN Ok(PyNone, <<"Error: GEMINI_API_KEY environment variable not set.">>)
    ELSE IF resp.kind = "config_error"
    THEN Ok(PyNone, <<"Error configuring Gemini API">>)
    ELSE IF resp.kind = "gen_error"
    THEN \* the handler reads response.text, but response was never bound
         Raise("UnboundLocalError", <<"An error occurred during Gemini API call">>)
    ELSE LET parsed == JsonLoads(RemoveFences(Strip(resp.text)))
         IN IF parsed.exc = "" THEN parsed
            ELSE Ok(PyNone, <<"An error occurred during Gemini API call", "Received text">>)

\* whether generate_infrastructure_analysis reaches model.generate_content
GenCallIssued(api_key, resp) == Truthy(api_key) /\ resp.kind # "config_error"

-----------------------------------------------------------------------------
(* main *)

\* values os.getenv may give for a credential: unset, set but empty, set
KeyValues == {PyNone, Str(<<>>), Str(<<"k">>)}

\* `not key` replaced by `key is None`
KeyMissingNoneOnly(key) == key.t = "null"

\* `if not google_maps_api_key` / `if not gemini_api_key`
KeyMissing(key) == ~Truthy(key)

\* `not nearest_place` replaced by `nearest_place is None`
PlaceMissingNoneOnly(place) == place.t = "null"

\* `if not nearest_place`
PlaceMissing(place) == ~Truthy(place)

\* `humidity is None` replaced by `not humidity`
HumidityMissingFalsy(h) == ~Truthy(h)

\* `if humidity is None`
HumidityMissing(h) == h.t = "null"

RequestedKeys == {"ai_summary", "resources_used", "impact_reduction", "is_critical"}

\* `not ai_analysis` extended by a test that the four requested keys are there
AnalysisMissingOrIncomplete(a) == ~Truthy(a) \/ (a.t = "dict" /\ ~(RequestedKeys \subseteq DOMAIN a.d))

\* `if not ai_analysis`
AnalysisMissing(a) == ~Truthy(a)

\* nearest_place.get('name', 'N/A')
place_name_of(place) == DictGet(place, "name", Str(S_NA))

\* nearest_place.get('types', ['unknown'])[0].replace('_', ' ').title()
place_type_of(place) ==
    LET types == DictGet(place, "types", List(<<Str(S_unknown)>>))
        first == Index0(types.val)
    IN IF types.exc # "" THEN Raise(types.exc, <<>>)
       ELSE IF first.exc # "" THEN Raise(first.exc, <<>>)
       ELSE IF first.val.t # "str" THEN Raise("AttributeError", <<>>)
       ELSE Ok(Str(Title(ReplaceUnderscore(first.val.s))), <<>>)

\* the dict display with the place fields written after the analysis
MergePlaceLast(name, type, a) ==
    [k \in {"name", "type"} \cup DOMAIN a.d |->
        IF k = "name" THEN name ELSE IF k = "type" THEN type ELSE a.d[k]]

\* {"name": place_name, "type": place_type, **ai_analysis}
Merge(name, type, a) ==
    [k \in {"name", "type"} \cup DOMAIN a.d |->
        IF k \in DOMAIN a.d THEN a.d[k] ELSE IF k = "name" THEN name ELSE type]

FinalResponse(name, type, a) ==
    IF a.t # "dict" THEN Raise("TypeError", <<>>) ELSE Ok(Dict(Merge(name, type, a)), <<>>)

Init ==
    /\ pc = "START"
    /\ google_maps_api_key \in KeyValues
    /\ gemini_api_key \in KeyValues
    /\ calls = <<>>
    /\ stdout = <<>>
    /\ response = NoResponse
    /\ ret = Unset
    /\ nearest_place = Unset
    /\ place_name = Unset
    /\ place_type = Unset
    /\ humidity = Unset
    /\ prompt = <<>>
    /\ ai_analysis = Unset
    /\ final_response = Unset
    /\ exc = ""

\* the credential tests at the top of main
ValidateKeys ==
    /\ pc = "START"
    /\ IF KeyMissing(google_maps_api_key)
       THEN /\ stdout' = Append(stdout, "Error: GOOGLE_MAPS_API_KEY environment variable not set.")
            /\ pc' = "ABORT"
       ELSE IF KeyMissing(gemini_api_key)
       THEN /\ stdout' = Append(stdout, "Error: GEMINI_API_KEY environment variable not set.")
            /\ pc' = "ABORT"
       ELSE /\ stdout' = stdout
            /\ pc' = "SEARCHING"
    /\ UNCHANGED <<google_maps_api_key, gemini_api_key, calls, response, ret, nearest_place,
                   place_name, place_type, humidity, prompt, ai_analysis, final_response, exc>>

\* main calls find_nearest_place, which issues the place-search request
FindNearestPlace ==
    /\ pc = "SEARCHING"
    /\ \E resp \in PlaceResponses :
         LET r == find_nearest_place(resp)
         IN /\ calls' = Append(calls, "places")
            /\ response' = resp
            /\ stdout' = stdout \o <<"Searching for nearest infrastructure">> \o r.out
            /\ IF r.exc # ""
               THEN pc' = "RAISED" /\ exc' = r.exc /\ ret' = ret
               ELSE pc' = "FIND_RET" /\ exc' = exc /\ ret' = r.val
    /\ UNCHANGED <<google_maps_api_key, gemini_api_key, nearest_place, place_name, place_type,
                   humidity, prompt, ai_analysis, final_response>>

\* main takes the resolver's result: abort, or derive the name and the category
MainAfterFind ==
    /\ pc = "FIND_RET"
    /\ nearest_place' = ret
    /\ response' = NoResponse
    /\ ret' = Unset
    /\ IF PlaceMissing(ret)
       THEN /\ stdout' = Append(stdout, "Could not find any nearby infrastructure. Exiting.")
            /\ pc' = "ABORT"
            /\ UNCHANGED <<place_name, place_type, exc>>
       ELSE LET n == place_name_of(ret)
                ty == place_type_of(ret)
            IN IF n.exc # ""
               THEN pc' = "RAISED" /\ exc' = n.exc /\ UNCHANGED <<place_name, place_type, stdout>>
               ELSE IF ty.exc # ""
               THEN /\ pc' = "RAISED" /\ exc' = ty.exc /\ place_name' = n.val
                    /\ UNCHANGED <<place_type, stdout>>
               ELSE /\ pc' = "PLACE_RESOLVED" /\ exc' = exc
                    /\ place_name' = n.val /\ place_type' = ty.val
                    /\ stdout' = Append(stdout, "Found nearest place")
    /\ UNCHANGED <<google_maps_api_key, gemini_api_key, calls, humidity, prompt, ai_analysis,
                   final_response>>

\* main calls get_current_humidity, which issues the weather request
GetCurrentHumidity ==
    /\ pc = "PLACE_RESOLVED"
    /\ \E resp \in WeatherResponses :
         LET r == get_current_humidity(resp)
         IN /\ calls' = Append(calls, "weather")
            /\ response' = resp
            /\ stdout' = stdout \o <<"Fetching current climate data...">> \o r.out
            /\ IF r.exc # ""
               THEN pc' = "RAISED" /\ exc' = r.exc /\ ret' = ret
               ELSE pc' = "HUM_RET" /\ exc' = exc /\ ret' = r.val
    /\ UNCHANGED <<google_maps_api_key, gemini_api_key, nearest_place, place_name, place_type,
                   humidity, prompt, ai_analysis, final_response>>

\* main takes the reading, substituting "not available" for None
MainAfterHumidity ==
    /\ pc = "HUM_RET"
    /\ response' = NoResponse
    /\ ret' = Unset
    /\ IF HumidityMissing(ret)
       THEN /\ stdout' = Append(stdout, "Could not retrieve humidity data. Proceeding without it.")
            /\ humidity' = Str(S_not_available)
       ELSE /\ stdout' = stdout
            /\ humidity' = ret
    /\ pc' = "HUMIDITY_RESOLVED"
    /\ UNCHANGED <<google_maps_api_key, gemini_api_key, calls, nearest_place, place_name,
                   place_type, prompt, ai_analysis, final_response, exc>>

\* main calls generate_infrastructure_analysis, which builds the prompt and
\* invokes the generative service
GenerateAnalysis ==
    /\ pc = "HUMIDITY_RESOLVED"
    /\ \E resp \in GenResponses :
         LET r == generate_infrastructure_analysis(place_name, place_type, humidity,
                                                   gemini_api_key, resp)
             issued == GenCallIssued(gemini_api_key, resp)
         IN /\ calls' = IF issued THEN Append(calls, "gemini") ELSE calls
            /\ prompt' = IF issued THEN Prompt(place_name, place_type, humidity) ELSE prompt
            /\ response' = resp
            /\ stdout' = stdout \o <<"Generating AI analysis...">> \o r.out
            /\ IF r.exc # ""
               THEN pc' = "RAISED" /\ exc' = r.exc /\ ret' = ret
               ELSE pc' = "GEN_RET" /\ exc' = exc /\ ret' = r.val
    /\ UNCHANGED <<google_maps_api_key, gemini_api_key, nearest_place, place_name, place_type,
                   humidity, ai_analysis, final_response>>

\* main takes the generator's result: abort, or go on to the report
MainAfterAnalysis ==
    /\ pc = "GEN_RET"
    /\ ai_analysis' = ret
    /\ response' = NoResponse
    /\ ret' = Unset
    /\ IF AnalysisMissing(ret)
       THEN /\ stdout' = Append(stdout, "Failed to generate AI analysis. Exiting.")
            /\ pc' = "ABORT"
       ELSE /\ stdout' = stdout
            /\ pc' = "ANALYSIS_GENERATED"
    /\ UNCHANGED <<google_maps_api_key, gemini_api_key, calls, nearest_place, place_name,
                   place_type, humidity, prompt, final_response, exc>>

\* main builds final_response and prints it
Assemble ==
    /\ pc = "ANALYSIS_GENERATED"
    /\ LET r == FinalResponse(place_name, place_type, ai_analysis)
       IN IF r.exc # ""
          THEN pc' = "RAISED" /\ exc' = r.exc /\ UNCHANGED <<final_response, stdout>>
          ELSE /\ pc' = "DONE" /\ exc' = exc
               /\ final_response' = r.val
               /\ stdout' = stdout \o <<"--- Analysis Complete ---", "JSON_REPORT">>
    /\ UNCHANGED <<google_maps_api_key, gemini_api_key, calls, response, ret, nearest_place,
                   place_name, place_type, humidity, prompt, ai_analysis>>

Next ==
    \/ ValidateKeys
    \/ FindNearestPlace
    \/ MainAfterFind
    \/ GetCurrentHumidity
    \/ MainAfterHumidity
    \/ GenerateAnalysis
    \/ MainAfterAnalysis
    \/ Assemble

Spec == Init /\ [][Next]_vars

-----------------------------------------------------------------------------
(* Properties *)

Lines == {stdout[i] : i \in 1..Len(stdout)}
KeyErrors == {"Error: GOOGLE_MAPS_API_KEY environment variable not set.",
              "Error: GEMINI_API_KEY environment variable not set."}
NoCredential(key) == key = PyNone \/ key = Str(<<>>)
AllCalls == <<"places", "weather", "gemini">>

\* C1: when either credential is missing or empty, main aborts with one
\* message and the number of remote calls issued in the run is zero.
C1_NoCallWithoutCredential ==
    (NoCredential(google_maps_api_key) \/ NoCredential(gemini_api_key)) =>
        /\ calls = <<>>
        /\ pc \in {"START", "ABORT"}
        /\ pc = "ABORT" => Len(stdout) = 1 /\ stdout[1] \in KeyErrors

C1_Witness ==
    /\ pc = "ABORT"
    /\ ~NoCredential(google_maps_api_key)
    /\ gemini_api_key = Str(<<>>)
    /\ calls = <<>>
    /\ stdout = <<"Error: GEMINI_API_KEY environment variable not set.">>

\* C2: whatever the three services answer, no exception escapes a component
\* or main: a run never ends anywhere but in DONE or ABORT.
C2_NoEscapingException == pc # "RAISED" /\ exc = ""

\* C3: the JSON report is printed only in DONE, after the resolver and the
\* generator both gave a usable value and the three calls were issued in the
\* order places, weather, gemini; an aborted run has printed no JSON and has
\* issued only the calls of the stages before the abort.
C3_ReportOnlyOnFullPath ==
    /\ "JSON_REPORT" \in Lines =>
          /\ pc = "DONE"
          /\ calls = AllCalls
          /\ Truthy(nearest_place)
          /\ Truthy(ai_analysis)
    /\ pc = "DONE" => stdout[Len(stdout)] = "JSON_REPORT"
    /\ pc = "ABORT" =>
          /\ "JSON_REPORT" \notin Lines
          /\ final_response = Unset
          /\ stdout[Len(stdout)] \in KeyErrors => calls = <<>>
          /\ stdout[Len(stdout)] = "Could not find any nearby infrastructure. Exiting."
                => calls = <<"places">>
          /\ stdout[Len(stdout)] = "Failed to generate AI analysis. Exiting."
                => calls \in {<<"places", "weather">>, AllCalls}
    /\ \E n \in 0..3 : calls = SubSeq(AllCalls, 1, n)

C3_Witness ==
    /\ pc = "DONE"
    /\ "JSON_REPORT" \in Lines
    /\ calls = AllCalls

\* the reply of the generative service in the frame fails to parse
ReplyUnparsable == response.kind = "gen_reply" /\ JsonLoads(RemoveFences(Strip(response.text))).exc # ""

\* C4: when the generative call raises, or the cleaned reply fails to parse,
\* generate_infrastructure_analysis returns None with a diagnostic printed;
\* it does not raise.
C4_GeneratorReturnsNone ==
    (response.kind = "gen_error" \/ ReplyUnparsable) =>
        /\ pc = "GEN_RET"
        /\ ret = PyNone
        /\ "An error occurred during Gemini API call" \in Lines

\* the category the derivation is to give for a place
ExpectedCategory(place) ==
    LET hasFirst == /\ "types" \in DOMAIN place.d
                    /\ place.d["types"].t = "list"
                    /\ Len(place.d["types"].l) > 0
        raw == IF hasFirst THEN place.d["types"].l[1].s ELSE S_unknown
    IN Str(Title(ReplaceUnderscore(raw)))

\* C5: for a resolved place the category is the first entry of its category
\* list with underscores replaced by spaces and title-cased, and "Unknown"
\* when the list is empty or absent.
C5_CategoryDerivation ==
    (nearest_place.t = "dict" /\ Truthy(nearest_place)) =>
        /\ place_type = ExpectedCategory(nearest_place)
        /\ Title(ReplaceUnderscore(place_type.s)) = place_type.s

\* the place-search response in the frame meets the success condition
PlaceSearchSucceeded ==
    /\ response.kind = "http"
    /\ response.code \in 200..299
    /\ "status" \in DOMAIN response.body.d
    /\ response.body.d["status"] = Str(S_OK)
    /\ "results" \in DOMAIN response.body.d
    /\ Len(response.body.d["results"].l) > 0

WeatherFrame == calls = <<"places", "weather">> /\ response.kind \in {"transport", "http"}

\* the weather response in the frame carries current.relative_humidity_2m
HumidityPathPresent ==
    /\ response.kind = "http"
    /\ response.code \in 200..299
    /\ "current" \in DOMAIN response.body.d
    /\ response.body.d["current"].t = "dict"
    /\ "relative_humidity_2m" \in DOMAIN response.body.d["current"].d

\* C7: get_current_humidity returns the value at current.relative_humidity_2m
\* and None when the request fails or the path is missing or malformed; it
\* never raises.
C7_HumidityOrNone ==
    WeatherFrame =>
        /\ pc = "HUM_RET"
        /\ IF HumidityPathPresent
           THEN ret = response.body.d["current"].d["relative_humidity_2m"]
           ELSE ret = PyNone

\* C8: a missing reading is not fatal: main always goes on to the generator,
\* the prompt carries "not available" when the reading is None and the
\* reading itself (0 included) otherwise.
C8_HumidityBestEffort ==
    /\ [](prompt # <<>> =>
            /\ Contains(prompt, P_HUM \o PyStr(humidity) \o <<"%">>)
            /\ humidity = Str(S_not_available) => Contains(prompt, S_not_available)
            /\ humidity.t = "num" => ~Contains(prompt, S_not_available))
    /\ [][pc = "HUM_RET" =>
            /\ pc' = "HUMIDITY_RESOLVED"
            /\ humidity' = IF ret = PyNone THEN Str(S_not_available) ELSE ret]_vars
    /\ [][pc = "HUMIDITY_RESOLVED" => pc' \in {"GEN_RET", "RAISED"}]_vars

C8_Witness ==
    /\ pc = "DONE"
    /\ humidity = Str(S_not_available)
    /\ Contains(prompt, P_HUM \o S_not_available \o <<"%">>)

\* the report carries every key of the analysis unchanged
AnalysisPassedThrough ==
    /\ final_response.t = "dict"
    /\ DOMAIN final_response.d = {"name", "type"} \cup DOMAIN ai_analysis.d
    /\ \A k \in DOMAIN ai_analysis.d : final_response.d[k] = ai_analysis.d[k]

\* C9 as stated: whenever the reply parses as a JSON object the run goes on
\* to the report, whatever keys the object has.
C9_AnyObjectReachesReport ==
    ai_analysis.t = "dict" => pc \in {"ANALYSIS_GENERATED", "DONE"}

\* C9 amended: whenever the reply parses as a non-empty JSON object the run
\* goes on to DONE and the report carries the object's keys as they are,
\* whichever of the requested keys are there; the empty object aborts.
C9_NonEmptyObjectReachesReport ==
    /\ []((ai_analysis.t = "dict" /\ DOMAIN ai_analysis.d # {}) =>
            /\ pc \in {"ANALYSIS_GENERATED", "DONE"}
            /\ pc = "DONE" => "JSON_REPORT" \in Lines /\ AnalysisPassedThrough)
    /\ [](ai_analysis = Dict(EmptyMapping) => pc = "ABORT")
    /\ [][(pc = "GEN_RET" /\ ret.t = "dict" /\ DOMAIN ret.d # {})
            => pc' = "ANALYSIS_GENERATED"]_vars
    /\ [][(pc = "ANALYSIS_GENERATED" /\ ai_analysis.t = "dict") => pc' = "DONE"]_vars

C9_Witness ==
    /\ pc = "DONE"
    /\ ai_analysis.t = "dict"
    /\ DOMAIN ai_analysis.d \cap RequestedKeys = {}
    /\ "JSON_REPORT" \in Lines
    /\ AnalysisPassedThrough

\* C10: the report's keys are name, type and every key of the analysis; name
\* and type come from the place unless the analysis has the key, in which
\* case the analysis wins; the merge leaves place and analysis as they were.
C10_PureMerge ==
    /\ [](pc = "DONE" =>
            /\ AnalysisPassedThrough
            /\ "name" \notin DOMAIN ai_analysis.d => final_response.d["name"] = place_name
            /\ "type" \notin DOMAIN ai_analysis.d => final_response.d["type"] = place_type
            /\ place_name = place_name_of(nearest_place).val
            /\ place_type = place_type_of(nearest_place).val)
    /\ [][pc = "ANALYSIS_GENERATED" =>
            UNCHANGED <<nearest_place, place_name, place_type, ai_analysis>>]_vars

C10_Witness ==
    /\ pc = "DONE"
    /\ "name" \in DOMAIN ai_analysis.d
    /\ final_response.d["name"] = ai_analysis.d["name"]
    /\ final_response.d["name"] # place_name
    /\ "is_critical" \in DOMAIN final_response.d

====
